---- MODULE Spec2Model ----
(***************************************************************************)
(* Model of the orchestration core of logistics_agents:                    *)
(*   - the CSV loader building the item list and the InventoryContext      *)
(*     constructor with its validate_items check,                          *)
(*   - the AgentCoordinator tool (coordinate_workflow_steps),              *)
(*   - the ResultSynthesizer tool (create_executive_summary),              *)
(*   - one run of the orchestrator agent over its tools (SpecRun),         *)
(*   - the logging module and the log_tool_interaction wrapper             *)
(*     (SpecLogging), main() (SpecMain), retry_operation (SpecRetry) and   *)
(*     the notebook log capture (SpecNotebook).                            *)
(*                                                                         *)
(* Numbers.  The code compares integers with float products                *)
(* (n * 0.15, n * 0.30, t * 0.5, t * 0.8, n * 0.1, n * 0.05).  For the     *)
(* integer ranges of the model the IEEE-754 comparison agrees with the     *)
(* exact rational one, so each is written cross-multiplied in integers.    *)
(* Unit costs are whole currency units; weights are in hundredths and      *)
(* the overall confidence in hundredths of a percent.                      *)
(***************************************************************************)
EXTENDS Integers, Sequences, FiniteSets, TLC

\* Largest number of rows the loader reads in one run.
MaxItems == 7

----------------------------------------------------------------------------
(* models/inventory_data.py : InventoryItem                                *)

Max(a, b) == IF a >= b THEN a ELSE b

Min(a, b) == IF a <= b THEN a ELSE b

\* __post_init__: reorder_threshold = max(10, int(order_quantity * 0.2))
\* when the caller gives none (the loader never gives one).
InventoryItem(stock, quantity, cost) ==
    [current_stock     |-> stock,
     order_quantity    |-> quantity,
     unit_cost         |-> cost,
     reorder_threshold |-> Max(10, (quantity * 2) \div 10)]

\* property is_below_threshold
is_below_threshold(item) == item.current_stock <= item.reorder_threshold

\* property is_critical: current_stock <= threshold * 0.5
is_critical(item) == 2 * item.current_stock <= item.reorder_threshold

\* Rows of the CSV file, as (Stock levels, Order quantities, Price).
\*   <<5, 30, 0>>    threshold 10: critical, priced at zero
\*   <<8, 20, 2>>    threshold 10: urgent (8 <= 8.0) but not critical
\*   <<10, 50, 3>>   threshold 10: at the threshold, not urgent
\*   <<60, 100, 5>>  threshold 20: well stocked
CsvRows == { <<5, 30, 0>>, <<8, 20, 2>>, <<10, 50, 3>>, <<60, 100, 5>> }

\* utils/data_loader.py : _create_inventory_item_from_row
create_inventory_item_from_row(row) == InventoryItem(row[1], row[2], row[3])

----------------------------------------------------------------------------
(* models/inventory_data.py : InventoryContext                             *)

NoContext == [kind |-> "none"]

\* The validator accepting every list.
validate_items_mut(v) == "ok"

\* field_validator("items"): an empty list raises ValueError.
validate_items(v) == IF v = << >> THEN "ValueError" ELSE "ok"

\* property items_below_threshold
items_below_threshold(its) == SelectSeq(its, is_below_threshold)

\* InventoryContext.critical_items
context_critical_items(its) == SelectSeq(its, is_critical)


----------------------------------------------------------------------------
(* agent_05_orchestrator/tools/agent_coordinator.py                        *)

NoPlan == [kind |-> "none"]

\* A dependency map with a cycle and a dependency on an undeclared task.
agent_dependencies_mut ==
    [t \in {"threshold_monitor", "priority_classifier", "supplier_matcher",
            "demand_forecaster", "route_calculator", "quantity_optimizer",
            "delivery_scheduler", "order_optimizer", "result_synthesizer"} |->
        CASE t = "threshold_monitor"   -> << >>
          [] t = "priority_classifier" -> <<"threshold_monitor">>
          [] t = "supplier_matcher"    -> << >>
          [] t = "demand_forecaster"   -> << >>
          [] t = "route_calculator"    -> <<"delivery_scheduler">>
          [] t = "quantity_optimizer"  -> <<"threshold_monitor", "demand_forecaster">>
          [] t = "delivery_scheduler"  -> <<"route_calculator">>
          [] t = "order_optimizer"     -> <<"quantity_optimizer", "supplier_matcher">>
          [] t = "result_synthesizer"  -> <<"quantity_optimizer", "route_computer",
                                            "order_optimizer">>]

\* The dependency map of the nine tasks: task |-> list of prerequisites.
agent_dependencies ==
    [t \in {"threshold_monitor", "priority_classifier", "supplier_matcher",
            "demand_forecaster", "route_calculator", "quantity_optimizer",
            "delivery_scheduler", "order_optimizer", "result_synthesizer"} |->
        CASE t = "threshold_monitor"   -> << >>
          [] t = "priority_classifier" -> <<"threshold_monitor">>
          [] t = "supplier_matcher"    -> << >>
          [] t = "demand_forecaster"   -> << >>
          [] t = "route_calculator"    -> <<"threshold_monitor">>
          [] t = "quantity_optimizer"  -> <<"threshold_monitor", "demand_forecaster">>
          [] t = "delivery_scheduler"  -> <<"route_calculator">>
          [] t = "order_optimizer"     -> <<"quantity_optimizer", "supplier_matcher">>
          [] t = "result_synthesizer"  -> <<"quantity_optimizer", "route_calculator",
                                            "order_optimizer">>]

\* route_calculator listed in the first group, next to the task it needs.
parallel_groups_dep_mut ==
    << <<"threshold_monitor", "supplier_matcher", "demand_forecaster",
         "route_calculator">>,
       <<"priority_classifier">>,
       <<"quantity_optimizer", "delivery_scheduler">>,
       <<"order_optimizer">>,
       <<"result_synthesizer">> >>

\* priority_classifier left out, quantity_optimizer listed in two groups.
parallel_groups_part_mut ==
    << <<"threshold_monitor", "supplier_matcher", "demand_forecaster">>,
       <<"route_calculator", "quantity_optimizer">>,
       <<"quantity_optimizer", "delivery_scheduler">>,
       <<"order_optimizer">>,
       <<"result_synthesizer">> >>

\* The five parallel execution groups, in execution order.
parallel_groups ==
    << <<"threshold_monitor", "supplier_matcher", "demand_forecaster">>,
       <<"priority_classifier", "route_calculator">>,
       <<"quantity_optimizer", "delivery_scheduler">>,
       <<"order_optimizer">>,
       <<"result_synthesizer">> >>

\* The six quality control checkpoints (only their number is used).
quality_checkpoints == 6

\* The urgent test tried before the critical one.
workflow_strategy_mut(critical_items, urgent_items, total_items) ==
    IF urgent_items * 100 > total_items * 30
    THEN "BALANCED PARALLEL APPROACH"
    ELSE IF critical_items * 100 > total_items * 15
         THEN "URGENT PARALLEL RESPONSE"
         ELSE "OPTIMIZATION-FOCUSED PARALLEL"

\* if critical_items > total_items * 0.15 ... elif urgent_items >
\* total_items * 0.30 ... else ...
workflow_strategy(critical_items, urgent_items, total_items) ==
    IF critical_items * 100 > total_items * 15
    THEN "URGENT PARALLEL RESPONSE"
    ELSE IF urgent_items * 100 > total_items * 30
         THEN "BALANCED PARALLEL APPROACH"
         ELSE "OPTIMIZATION-FOCUSED PARALLEL"

coordination_pattern(strategy) ==
    CASE strategy = "URGENT PARALLEL RESPONSE" ->
            "Emergency parallel execution with real-time validation"
      [] strategy = "BALANCED PARALLEL APPROACH" ->
            "Optimized parallel processing with quality gates"
      [] OTHER ->
            "Full parallel analysis with performance optimization"

\* The HIGH entry tested against half of the items instead of a tenth.
business_risk_factors_mut(below_threshold, total_items) ==
    (IF below_threshold * 2 > total_items
     THEN <<"HIGH stockout risk">> ELSE << >>)
    \o (IF below_threshold * 20 > total_items
        THEN <<"MEDIUM supply chain stress">> ELSE << >>)

\* below_threshold > total_items * 0.1 and > total_items * 0.05
business_risk_factors(below_threshold, total_items) ==
    (IF below_threshold * 10 > total_items
     THEN <<"HIGH stockout risk">> ELSE << >>)
    \o (IF below_threshold * 20 > total_items
        THEN <<"MEDIUM supply chain stress">> ELSE << >>)

\* Times in tenths of a second: 2.5 s per agent, 3.0 s per group;
\* efficiency_improvement < 30 is (seq - par) / seq * 100 < 30.
performance_risk_factors(deps, groups) ==
    LET seq == Cardinality(DOMAIN deps) * 25
        par == Len(groups) * 30
    IN  (IF Len(groups) > 3 THEN <<"Complex coordination">> ELSE << >>)
        \o (IF (seq - par) * 100 < 30 * seq
            THEN <<"Limited parallelization benefits">> ELSE << >>)

\* The smallest number of listed dependencies instead of the largest.
dependency_depth_mut(deps) ==
    CHOOSE n \in 0..Cardinality(DOMAIN deps) :
        /\ \E t \in DOMAIN deps : Len(deps[t]) = n
        /\ \A t \in DOMAIN deps : Len(deps[t]) >= n

\* max(len(deps) for deps in agent_dependencies.values())
dependency_depth(deps) ==
    CHOOSE n \in 0..Cardinality(DOMAIN deps) :
        /\ \E t \in DOMAIN deps : Len(deps[t]) = n
        /\ \A t \in DOMAIN deps : Len(deps[t]) <= n

\* item.current_stock <= item.reorder_threshold * 0.5
stock_le_half_threshold(item) == 2 * item.current_stock <= item.reorder_threshold

\* item.current_stock <= item.reorder_threshold * 0.8
stock_le_080_threshold(item) == 10 * item.current_stock <= 8 * item.reorder_threshold

RECURSIVE count_critical_mut(_)
\* The count stopping at the first item that is not critical.
count_critical_mut(its) ==
    IF its = << >> \/ ~stock_le_half_threshold(Head(its)) THEN 0
    ELSE 1 + count_critical_mut(Tail(its))

\* sum(1 for item in context.items if ... * 0.5)
count_critical(its) == Len(SelectSeq(its, stock_le_half_threshold))

\* The count with 0.4 in place of 0.8.
count_urgent_mut(its) ==
    LET stock_le_040_threshold(item) ==
            10 * item.current_stock <= 4 * item.reorder_threshold
    IN  Len(SelectSeq(its, stock_le_040_threshold))

\* sum(1 for item in context.items if ... * 0.8)
count_urgent(its) == Len(SelectSeq(its, stock_le_080_threshold))

\* What one call of coordinate_workflow_steps puts in its result text.
coordinate_workflow_steps(its) ==
    LET total_items     == Len(its)
        below_threshold == Len(items_below_threshold(its))
        critical_items  == count_critical(its)
        urgent_items    == count_urgent(its)
        strategy        == workflow_strategy(critical_items, urgent_items, total_items)
    IN  [kind                     |-> "plan",
         total_items              |-> total_items,
         below_threshold          |-> below_threshold,
         agent_dependencies       |-> agent_dependencies,
         parallel_groups          |-> parallel_groups,
         quality_checkpoints      |-> quality_checkpoints,
         business_risk_factors    |-> business_risk_factors(below_threshold, total_items),
         performance_risk_factors |-> performance_risk_factors(agent_dependencies,
                                                               parallel_groups),
         critical_items           |-> critical_items,
         urgent_items             |-> urgent_items,
         workflow_strategy        |-> strategy,
         coordination_pattern     |-> coordination_pattern(strategy),
         dependency_depth         |-> dependency_depth(agent_dependencies),
         parallel_potential       |-> Len(parallel_groups[1])]

----------------------------------------------------------------------------
(* agent_05_orchestrator/tools/result_synthesizer.py                       *)

NoSummary == [kind |-> "none"]

Metrics ==
    {"quantity_route_alignment", "cost_benefit_optimization",
     "supplier_capacity_validation", "timeline_feasibility",
     "demand_forecast_accuracy", "consolidation_efficiency"}

\* One score entered with a digit too many.
validation_results_mut ==
    [m \in Metrics |->
        CASE m = "quantity_route_alignment"     -> 920
          [] m = "cost_benefit_optimization"    -> 88
          [] m = "supplier_capacity_validation" -> 95
          [] m = "timeline_feasibility"         -> 85
          [] m = "demand_forecast_accuracy"     -> 90
          [] m = "consolidation_efficiency"     -> 93]

\* Cross-agent validation scores, in percent.
validation_results ==
    [m \in Metrics |->
        CASE m = "quantity_route_alignment"     -> 92
          [] m = "cost_benefit_optimization"    -> 88
          [] m = "supplier_capacity_validation" -> 95
          [] m = "timeline_feasibility"         -> 85
          [] m = "demand_forecast_accuracy"     -> 90
          [] m = "consolidation_efficiency"     -> 93]

\* The first weight raised without lowering another.
confidence_weights_mut ==
    [m \in Metrics |->
        CASE m = "quantity_route_alignment"     -> 25
          [] m = "cost_benefit_optimization"    -> 18
          [] m = "supplier_capacity_validation" -> 15
          [] m = "timeline_feasibility"         -> 17
          [] m = "demand_forecast_accuracy"     -> 15
          [] m = "consolidation_efficiency"     -> 15]

\* Confidence weights, in hundredths (0.20 is 20).
confidence_weights ==
    [m \in Metrics |->
        CASE m = "quantity_route_alignment"     -> 20
          [] m = "cost_benefit_optimization"    -> 18
          [] m = "supplier_capacity_validation" -> 15
          [] m = "timeline_feasibility"         -> 17
          [] m = "demand_forecast_accuracy"     -> 15
          [] m = "consolidation_efficiency"     -> 15]

RECURSIVE SumOver(_, _)
\* sum(f[k] for k in S) for an integer-valued function f.
SumOver(f, S) ==
    IF S = {} THEN 0
    ELSE LET k == CHOOSE x \in S : TRUE
         IN  f[k] + SumOver(f, S \ {k})

\* sum(validation_results[metric] * weight for metric, weight in
\* confidence_weights.items()), in hundredths of a percent.
overall_confidence(results, weights) ==
    SumOver([m \in DOMAIN weights |-> results[m] * weights[m]], DOMAIN weights)

RECURSIVE estimated_restock_cost(_)
\* sum(item.unit_cost * item.order_quantity for item in items_below_threshold)
estimated_restock_cost(below) ==
    IF below = << >> THEN 0
    ELSE Head(below).unit_cost * Head(below).order_quantity
         + estimated_restock_cost(Tail(below))

\* The five fixed lines of the INTEGRATION QUALITY section, the only list
\* of remarks in the report (texts shortened).
integration_insights ==
    << "OK route optimization aligned with quantity recommendations",
       "OK supplier consolidation validated against capacity constraints",
       "WARN timeline conflicts resolved through priority-based scheduling",
       "OK cost-benefit analysis confirmed positive ROI",
       "OK demand forecasts cross-validated with historical patterns" >>

\* What one call of create_executive_summary computes.  The call raises
\* ZeroDivisionError where it divides by zero: by total_items in
\* risk_reduction, by estimated_restock_cost in the result text; then
\* kind is "raised" and no text is returned.
create_executive_summary(its) ==
    LET total_items == Len(its)
        below       == items_below_threshold(its)
        cost        == estimated_restock_cost(below)
    IN  [kind                   |-> IF total_items = 0 \/ cost = 0
                                    THEN "raised" ELSE "returned",
         exception              |-> IF total_items = 0 \/ cost = 0
                                    THEN "ZeroDivisionError" ELSE "none",
         total_items            |-> total_items,
         below_threshold        |-> Len(below),
         validation_results     |-> validation_results,
         confidence_weights     |-> confidence_weights,
         overall_confidence     |-> overall_confidence(validation_results,
                                                       confidence_weights),
         estimated_restock_cost |-> cost,
         critical_count         |-> count_critical(its),
         urgent_count           |-> count_urgent(its),
         suppliers_involved     |-> Min(4, Len(below) \div 5 + 1),
         integration_insights   |-> integration_insights]

----------------------------------------------------------------------------
(* The specialist tools, as far as their outcome goes.  Each is wrapped by *)
(* log_tool_interaction, which logs an exception and raises it again.      *)

\* The nine tasks of the dependency map.
Tasks == DOMAIN agent_dependencies

\* item.current_stock <= item.order_quantity * 0.2
needs_restock(item) == 5 * item.current_stock <= item.order_quantity

\* [...][:5]
first_five(its) == SubSeq(its, 1, Min(5, Len(its)))

\* estimate_simple_demand divides by item.order_quantity for each of the
\* first five items needing restock.
estimate_simple_demand(its) ==
    LET low == first_five(SelectSeq(its, needs_restock))
    IN  IF \E i \in 1..Len(low) : low[i].order_quantity = 0
        THEN "raised" ELSE "returned"

\* create_delivery_schedule divides current_stock by order_quantity for
\* each of the first five items needing restock.
create_delivery_schedule(its) ==
    LET urgent == first_five(SelectSeq(its, needs_restock))
    IN  IF \E i \in 1..Len(urgent) : urgent[i].order_quantity = 0
        THEN "raised" ELSE "returned"

\* wrapper(...) of log_tool_interaction around the tool of task t:
\* "returned" when func returns, "raised" when it raises (raised again).
run_tool(t, its) ==
    CASE t = "demand_forecaster"  -> estimate_simple_demand(its)
      [] t = "delivery_scheduler" -> create_delivery_schedule(its)
      [] t = "result_synthesizer" -> create_executive_summary(its).kind
      [] OTHER                    -> "returned"

NoResult == [kind |-> "none"]

\* check_inventory_thresholds: the number of items it reports below
\* threshold, out of the total.
check_inventory_thresholds(its) ==
    [kind        |-> "returned",
     items_below |-> Len(SelectSeq(its, is_below_threshold)),
     total_items |-> Len(its)]

\* stock_ratio = item.current_stock / max(item.reorder_threshold, 1),
\* compared with 0.3 and 0.6.
stock_ratio_lt_03(item) ==
    10 * item.current_stock < 3 * Max(item.reorder_threshold, 1)

stock_ratio_lt_06(item) ==
    10 * item.current_stock < 6 * Max(item.reorder_threshold, 1)

\* The classifier with "if" in place of "elif" for the second test.
classify_item_priority_mut(its) ==
    LET below     == SelectSeq(its, is_below_threshold)
        is_low(i) == ~stock_ratio_lt_03(i) /\ ~stock_ratio_lt_06(i)
    IN  [kind            |-> "returned",
         high_priority   |-> SelectSeq(below, stock_ratio_lt_03),
         medium_priority |-> SelectSeq(below, stock_ratio_lt_06),
         low_priority    |-> SelectSeq(below, is_low)]

\* classify_item_priority: the three lists it builds.
classify_item_priority(its) ==
    LET below        == SelectSeq(its, is_below_threshold)
        is_medium(i) == ~stock_ratio_lt_03(i) /\ stock_ratio_lt_06(i)
        is_low(i)    == ~stock_ratio_lt_03(i) /\ ~stock_ratio_lt_06(i)
    IN  [kind            |-> "returned",
         high_priority   |-> SelectSeq(below, stock_ratio_lt_03),
         medium_priority |-> SelectSeq(below, is_medium),
         low_priority    |-> SelectSeq(below, is_low)]

\* result = func(*args, **kwargs) for the tool of task t, where the call
\* returns; the two threshold monitor tools with what they report.
tool_output(t, its) ==
    CASE t = "threshold_monitor"   -> check_inventory_thresholds(its)
      [] t = "priority_classifier" -> classify_item_priority(its)
      [] OTHER                     -> [kind |-> run_tool(t, its)]

----------------------------------------------------------------------------
(* utils/logging_config.py.  The module state is one record, so that the   *)
(* functions are operators from state to state and a caller composes them. *)

NoLogger == [name |-> "none"]

NoOutcome == [kind |-> "none"]

NoInvocation == [pc |-> "idle"]

\* _console_logger = None, _file_logger = None, nothing written.
LoggingInit ==
    [console_logger |-> NoLogger,
     file_logger    |-> NoLogger,
     log_files      |-> << >>,
     file_log       |-> << >>,
     calls          |-> 0]

\* One line of the file log: its leading field and the name after it.
Entry(type, name) == [type |-> type, name |-> name]

\* The four lines setup_logging writes after creating the handlers.
SessionStartLines ==
    << Entry("SESSION_START", "-"), Entry("User", "-"),
       Entry("Log file", "-"), Entry("Settings", "-") >>

\* setup_logging without the early return.
setup_logging_mut(L) ==
    LET n == L.calls + 1
    IN  [console_logger |-> [name |-> "logistics_console", handlers |-> <<n>>],
         file_logger    |-> [name |-> "logistics_file", handlers |-> <<n>>],
         log_files      |-> Append(L.log_files, n),
         file_log       |-> L.file_log \o SessionStartLines,
         calls          |-> n]

\* setup_logging.  n numbers the call; a handler and a log file carry the
\* number of the call that created them.  logging.getLogger(name) gives
\* the logger registered under the name; handlers.clear() and addHandler
\* leave it with the one new handler.
setup_logging(L) ==
    LET n == L.calls + 1
    IN  IF L.console_logger # NoLogger /\ L.file_logger # NoLogger
        THEN [L EXCEPT !.calls = n]
        ELSE [console_logger |-> [name |-> "logistics_console", handlers |-> <<n>>],
              file_logger    |-> [name |-> "logistics_file", handlers |-> <<n>>],
              log_files      |-> Append(L.log_files, n),
              file_log       |-> L.file_log \o SessionStartLines,
              calls          |-> n]

\* get_loggers
get_loggers(L) ==
    IF L.console_logger # NoLogger /\ L.file_logger # NoLogger
    THEN [L EXCEPT !.calls = L.calls + 1]
    ELSE setup_logging(L)

\* The pair a call that left the module in state L returned.
Loggers(L) == <<L.console_logger, L.file_logger>>

\* file_logger.info(...) / file_logger.error(...)
file_logger_log(L, entry) == [L EXCEPT !.file_log = Append(@, entry)]

\* log_system_event(event, details)
log_system_event(L, event) ==
    file_logger_log(get_loggers(L), Entry("SYSTEM_EVENT", event))

\* log_session_end()
log_session_end(L) ==
    file_logger_log(get_loggers(L), Entry("SESSION_END", "-"))

\* Whether the file log has a line with this leading field and name.
Logged(L, type, name) ==
    \E k \in 1..Len(L.file_log) : L.file_log[k] = Entry(type, name)

----------------------------------------------------------------------------
(* State                                                                   *)

VARIABLES
    items,        \* the list load_inventory_from_csv is building
    phase,        \* "loading", "ready" (context built) or "rejected"
    context,      \* the InventoryContext, or NoContext
    plan,         \* result of the last coordinate_workflow_steps call
    summary,      \* outcome of the last create_executive_summary call
    task_status,  \* per task: "pending", "running", "returned", "raised"
    run_status,   \* LoggedAgentRunner.run_agent: "idle", "running",
                  \* "returned" or "raised"
    prev_plan,    \* result of the coordinate_workflow_steps call before
    prev_summary, \* outcome of the create_executive_summary call before
    tool_result   \* per task: what its tool's current call gave, or NoResult

runvars == <<task_status, run_status, prev_plan, prev_summary, tool_result>>

VARIABLES
    logging,           \* utils/logging_config.py: the module's loggers,
                       \* the log files made and the lines of the file log
    returned_loggers,  \* the calls of setup_logging / get_loggers made, each
                       \* with the pair it returned
    invocation,        \* the current call of a log_tool_interaction wrapper
    main_pc,           \* main.py: position of main()
    retry_pc,          \* utils/helpers.py retry_operation: position
    attempt,           \*   loop variable
    max_attempts,      \*   argument
    operation,         \*   what the 1st, 2nd, ... call of operation() does
    op_calls,          \*   number of calls of operation() made
    last_exception,    \*   local variable
    retry_result,      \*   what retry_operation returned or raised
    logs,              \* utils/notebook_logging.py NotebookLogCapture.logs
    current_run_logs,  \*   NotebookLogCapture.current_run_logs
    nb_pc,             \*   position of run_agent_with_capture
    nb_op,             \*   the operation performed last
    captured           \*   number of log entries created so far

logvars == <<logging, returned_loggers, invocation>>

mainvars == <<main_pc>>

retryvars == <<retry_pc, attempt, max_attempts, operation, op_calls,
               last_exception, retry_result>>

nbvars == <<logs, current_run_logs, nb_pc, nb_op, captured>>

auxvars == <<logvars, mainvars, retryvars, nbvars>>

\* No logger set up, no wrapper called.
LogIdle ==
    /\ logging = LoggingInit
    /\ returned_loggers = << >>
    /\ invocation = NoInvocation

\* main() not entered.
MainIdle == main_pc = "idle"

\* retry_operation not called.
RetryIdle ==
    /\ retry_pc = "idle"
    /\ attempt = 0
    /\ max_attempts = 0
    /\ operation = << >>
    /\ op_calls = 0
    /\ last_exception = NoOutcome
    /\ retry_result = NoOutcome

\* NotebookLogCapture.__init__
NbIdle ==
    /\ logs = << >>
    /\ current_run_logs = << >>
    /\ nb_pc = "idle"
    /\ nb_op = "init"
    /\ captured = 0

AuxIdle == LogIdle /\ MainIdle /\ RetryIdle /\ NbIdle

vars == <<items, phase, context, plan, summary, runvars, auxvars>>

Init ==
    /\ items = << >>
    /\ phase = "loading"
    /\ context = NoContext
    /\ plan = NoPlan
    /\ summary = NoSummary
    /\ task_status = [t \in Tasks |-> "pending"]
    /\ run_status = "idle"
    /\ prev_plan = NoPlan
    /\ prev_summary = NoSummary
    /\ tool_result = [t \in Tasks |-> NoResult]
    /\ AuxIdle

\* load_inventory_from_csv: one iteration of the loop over the rows.
LoadRow ==
    /\ phase = "loading"
    /\ Len(items) < MaxItems
    /\ \E row \in CsvRows :
          items' = Append(items, create_inventory_item_from_row(row))
    /\ UNCHANGED <<phase, context, plan, summary>>
    /\ UNCHANGED runvars
    /\ UNCHANGED auxvars

\* InventoryContext(items=items, ...): validate_items runs first; when it
\* raises, no context object exists.
CreateContext ==
    /\ phase = "loading"
    /\ IF validate_items(items) = "ok"
       THEN /\ context' = [kind |-> "context", items |-> items]
            /\ phase' = "ready"
       ELSE /\ context' = NoContext
            /\ phase' = "rejected"
    /\ UNCHANGED <<items, plan, summary>>
    /\ UNCHANGED runvars
    /\ UNCHANGED auxvars

\* The strategy branch also regrouping the schedule: under the
\* optimization-focused strategy the first two groups run as one.
CoordinateWorkflowSteps_mut ==
    /\ context # NoContext
    /\ plan' = LET p == coordinate_workflow_steps(context.items)
               IN  IF p.workflow_strategy = "OPTIMIZATION-FOCUSED PARALLEL"
                   THEN [p EXCEPT !.parallel_groups =
                            <<p.parallel_groups[1] \o p.parallel_groups[2]>>
                            \o SubSeq(p.parallel_groups, 3, Len(p.parallel_groups))]
                   ELSE p
    /\ UNCHANGED <<items, phase, context, summary>>
    /\ UNCHANGED runvars
    /\ UNCHANGED auxvars

\* The orchestrator calls the AgentCoordinator tool on the context.
CoordinateWorkflowSteps ==
    /\ context # NoContext
    /\ plan' = coordinate_workflow_steps(context.items)
    /\ UNCHANGED <<items, phase, context, summary>>
    /\ UNCHANGED runvars
    /\ UNCHANGED auxvars

\* The orchestrator calls the ResultSynthesizer tool on the context.
CreateExecutiveSummary ==
    /\ context # NoContext
    /\ summary' = create_executive_summary(context.items)
    /\ UNCHANGED <<items, phase, context, plan>>
    /\ UNCHANGED runvars
    /\ UNCHANGED auxvars

Next ==
    \/ LoadRow
    \/ CreateContext
    \/ CoordinateWorkflowSteps
    \/ CreateExecutiveSummary

Spec == Init /\ [][Next]_vars

----------------------------------------------------------------------------
(* One run of the orchestrator agent on a built context.  The language     *)
(* model behind Runner.run chooses which tool to call and when; the code   *)
(* puts no condition on it, so every order of calls is a behaviour.        *)

\* Collections the run is started on:
\*   one urgent item;
\*   an item with stock 0 and order quantity 0, then an urgent item;
\*   one well stocked item;
\*   items at 20%, 50% and 80% of their threshold and a well stocked one.
RunCollections ==
    { <<InventoryItem(8, 20, 2)>>,
      <<InventoryItem(0, 0, 2), InventoryItem(8, 20, 2)>>,
      <<InventoryItem(60, 100, 5)>>,
      <<InventoryItem(2, 20, 2), InventoryItem(5, 30, 1),
        InventoryItem(8, 20, 2), InventoryItem(60, 100, 5)>> }

InitRun ==
    /\ items \in RunCollections
    /\ phase = "ready"
    /\ context = [kind |-> "context", items |-> items]
    /\ plan = NoPlan
    /\ summary = NoSummary
    /\ task_status = [t \in Tasks |-> "pending"]
    /\ run_status = "idle"
    /\ prev_plan = NoPlan
    /\ prev_summary = NoSummary
    /\ tool_result = [t \in Tasks |-> NoResult]
    /\ AuxIdle

\* run_agent up to the call of Runner.run.
StartRun ==
    /\ run_status = "idle"
    /\ run_status' = "running"
    /\ UNCHANGED <<items, phase, context, plan, summary,
                   task_status, prev_plan, prev_summary, tool_result>>
    /\ UNCHANGED auxvars

\* A call that keeps a count of the plans made so far in the plan.
CallCoordinator_mut ==
    /\ run_status = "running"
    /\ prev_plan' = plan
    /\ plan' = LET p == coordinate_workflow_steps(context.items)
               IN  IF plan = NoPlan THEN p
                   ELSE [p EXCEPT !.quality_checkpoints = plan.quality_checkpoints + 1]
    /\ UNCHANGED <<items, phase, context, summary,
                   task_status, run_status, prev_summary, tool_result>>
    /\ UNCHANGED auxvars

\* The agent calls coordinate_workflow_steps (again).
CallCoordinator ==
    /\ run_status = "running"
    /\ prev_plan' = plan
    /\ plan' = coordinate_workflow_steps(context.items)
    /\ UNCHANGED <<items, phase, context, summary,
                   task_status, run_status, prev_summary, tool_result>>
    /\ UNCHANGED auxvars

\* The agent calls the tool of task t (again): the wrapper logs TOOL_INPUT
\* and enters func.  Nothing looks at the state of other tasks.
StartTask ==
    /\ run_status = "running"
    /\ \E t \in Tasks :
          /\ task_status[t] # "running"
          /\ task_status' = [task_status EXCEPT ![t] = "running"]
          /\ tool_result' = [tool_result EXCEPT ![t] = NoResult]
    /\ UNCHANGED <<items, phase, context, plan, summary,
                   run_status, prev_plan, prev_summary>>
    /\ UNCHANGED auxvars

\* The tool of task t returns or raises; the wrapper logs TOOL_OUTPUT and
\* returns the result, or logs TOOL_ERROR and raises the exception again.
FinishTask ==
    /\ \E t \in Tasks :
          /\ task_status[t] = "running"
          /\ task_status' = [task_status EXCEPT ![t] = run_tool(t, context.items)]
          /\ tool_result' = [tool_result EXCEPT ![t] = tool_output(t, context.items)]
          /\ IF t = "result_synthesizer"
             THEN /\ prev_summary' = summary
                  /\ summary' = create_executive_summary(context.items)
             ELSE UNCHANGED <<summary, prev_summary>>
    /\ UNCHANGED <<items, phase, context, plan, run_status, prev_plan>>
    /\ UNCHANGED auxvars

\* Runner.run returns the final output, or raises; run_agent logs
\* AGENT_SUCCESS and returns, or logs AGENT_ERROR and raises again.
FinishRun ==
    /\ run_status = "running"
    /\ \A t \in Tasks : task_status[t] # "running"
    /\ \/ run_status' = "returned"
       \/ run_status' = "raised"
    /\ UNCHANGED <<items, phase, context, plan, summary,
                   task_status, prev_plan, prev_summary, tool_result>>
    /\ UNCHANGED auxvars

NextRun ==
    \/ StartRun
    \/ CallCoordinator
    \/ StartTask
    \/ FinishTask
    \/ FinishRun

SpecRun == InitRun /\ [][NextRun]_vars

----------------------------------------------------------------------------
(* The logging module under its callers: setup_logging and get_loggers    *)
(* called in any order, and tools called through log_tool_interaction.     *)

MaxCalls == 3

datavars == <<items, phase, context, plan, summary>>

\* The orchestrator run has not started.
RunIdle ==
    /\ task_status = [t \in Tasks |-> "pending"]
    /\ run_status = "idle"
    /\ prev_plan = NoPlan
    /\ prev_summary = NoSummary
    /\ tool_result = [t \in Tasks |-> NoResult]

InitLogging ==
    /\ items \in RunCollections
    /\ phase = "ready"
    /\ context = [kind |-> "context", items |-> items]
    /\ plan = NoPlan
    /\ summary = NoSummary
    /\ RunIdle
    /\ AuxIdle

\* A caller calls setup_logging().
SetupLogging ==
    /\ logging.calls < MaxCalls
    /\ logging' = setup_logging(logging)
    /\ returned_loggers' = Append(returned_loggers,
                                  [call |-> "setup_logging", loggers |-> Loggers(logging')])
    /\ UNCHANGED <<invocation, datavars, runvars, mainvars, retryvars, nbvars>>

\* A caller calls get_loggers().
GetLoggers ==
    /\ logging.calls < MaxCalls
    /\ logging' = get_loggers(logging)
    /\ returned_loggers' = Append(returned_loggers,
                                  [call |-> "get_loggers", loggers |-> Loggers(logging')])
    /\ UNCHANGED <<invocation, datavars, runvars, mainvars, retryvars, nbvars>>

\* wrapper(...) up to the call of func: get_loggers(), then TOOL_INPUT.
ToolEnter ==
    /\ invocation.pc # "in_func"
    /\ logging.calls < MaxCalls
    /\ \E t \in Tasks :
          /\ logging' = file_logger_log(get_loggers(logging), Entry("TOOL_INPUT", t))
          /\ invocation' = [pc |-> "in_func", tool |-> t,
                            func |-> NoOutcome, wrapper |-> NoOutcome]
    /\ returned_loggers' = Append(returned_loggers,
                                  [call |-> "get_loggers", loggers |-> Loggers(logging')])
    /\ UNCHANGED <<datavars, runvars, mainvars, retryvars, nbvars>>

\* A wrapper that logs the error and returns None.
ToolExit_mut ==
    /\ invocation.pc = "in_func"
    /\ LET t == invocation.tool
           o == tool_output(t, context.items)
       IN  IF o.kind = "returned"
           THEN /\ logging' = file_logger_log(logging, Entry("TOOL_OUTPUT", t))
                /\ invocation' = [pc |-> "done", tool |-> t, func |-> o, wrapper |-> o]
           ELSE /\ logging' = file_logger_log(logging, Entry("TOOL_ERROR", t))
                /\ invocation' = [pc |-> "done", tool |-> t, func |-> o,
                                  wrapper |-> [kind |-> "returned"]]
    /\ UNCHANGED <<returned_loggers, datavars, runvars, mainvars, retryvars, nbvars>>

\* wrapper(...) from the call of func on: func returns, TOOL_OUTPUT is
\* logged and the result returned; or func raises, TOOL_ERROR is logged and
\* the exception raised again.
ToolExit ==
    /\ invocation.pc = "in_func"
    /\ LET t == invocation.tool
           o == tool_output(t, context.items)
       IN  IF o.kind = "returned"
           THEN /\ logging' = file_logger_log(logging, Entry("TOOL_OUTPUT", t))
                /\ invocation' = [pc |-> "done", tool |-> t, func |-> o, wrapper |-> o]
           ELSE /\ logging' = file_logger_log(logging, Entry("TOOL_ERROR", t))
                /\ invocation' = [pc |-> "done", tool |-> t, func |-> o, wrapper |-> o]
    /\ UNCHANGED <<returned_loggers, datavars, runvars, mainvars, retryvars, nbvars>>

NextLogging ==
    \/ SetupLogging
    \/ GetLoggers
    \/ ToolEnter
    \/ ToolExit

SpecLogging == InitLogging /\ [][NextLogging]_vars

----------------------------------------------------------------------------
(* main.py : main()                                                        *)

MainMaxRows == 3

InitMain ==
    /\ items = << >>
    /\ phase = "loading"
    /\ context = NoContext
    /\ plan = NoPlan
    /\ summary = NoSummary
    /\ RunIdle
    /\ LogIdle
    /\ main_pc = "start"
    /\ RetryIdle
    /\ NbIdle

\* setup_logging(), APPLICATION_START, DATA_LOADING.
MainStart ==
    /\ main_pc = "start"
    /\ logging' = log_system_event(
                      log_system_event(setup_logging(logging), "APPLICATION_START"),
                      "DATA_LOADING")
    /\ main_pc' = "loading"
    /\ UNCHANGED <<returned_loggers, invocation, datavars, runvars, retryvars, nbvars>>

\* load_inventory_from_csv: one iteration of the loop over the rows.
MainLoadRow ==
    /\ main_pc = "loading"
    /\ Len(items) < MainMaxRows
    /\ \E row \in CsvRows :
          items' = Append(items, create_inventory_item_from_row(row))
    /\ UNCHANGED <<phase, context, plan, summary>>
    /\ UNCHANGED <<logvars, mainvars, runvars, retryvars, nbvars>>

\* load_sample_inventory_context when the CSV file does not exist: the
\* FileNotFoundError is caught and a one-item sample context returned.
MainLoadSample ==
    /\ main_pc = "loading"
    /\ items = << >>
    /\ items' = <<InventoryItem(5, 50, 26)>>
    /\ context' = [kind |-> "context", items |-> items']
    /\ logging' = log_system_event(logging, "DATA_LOADED")
    /\ main_pc' = "analysis"
    /\ UNCHANGED <<phase, plan, summary>>
    /\ UNCHANGED <<returned_loggers, invocation, runvars, retryvars, nbvars>>

\* create_inventory_context builds the context from the rows read.  When
\* the constructor raises (no row gave an item), as when reading the file
\* raises, main's handler logs DATA_LOAD_ERROR.
MainCreateContext ==
    /\ main_pc = "loading"
    /\ IF validate_items(items) = "ok"
       THEN /\ context' = [kind |-> "context", items |-> items]
            /\ logging' = log_system_event(logging, "DATA_LOADED")
            /\ main_pc' = "analysis"
       ELSE /\ context' = NoContext
            /\ logging' = file_logger_log(logging, Entry("DATA_LOAD_ERROR", "-"))
            /\ main_pc' = "fallback"
    /\ UNCHANGED <<items, phase, plan, summary>>
    /\ UNCHANGED <<returned_loggers, invocation, runvars, retryvars, nbvars>>

\* The handler's InventoryContext(items=[], ...): validate_items runs on
\* the empty list; when it raises, the exception leaves main.
MainFallback ==
    /\ main_pc = "fallback"
    /\ IF validate_items(<< >>) = "ok"
       THEN /\ context' = [kind |-> "context", items |-> << >>]
            /\ logging' = log_system_event(logging, "DATA_FALLBACK")
            /\ main_pc' = "analysis"
       ELSE /\ main_pc' = "raised"
            /\ UNCHANGED <<context, logging>>
    /\ UNCHANGED <<items, phase, plan, summary>>
    /\ UNCHANGED <<returned_loggers, invocation, runvars, retryvars, nbvars>>

\* asyncio.run(run_inventory_analysis(context)): setup_logging() again,
\* ANALYSIS_START, then the agent run.
MainAnalysisStart ==
    /\ main_pc = "analysis"
    /\ logging' = log_system_event(setup_logging(logging), "ANALYSIS_START")
    /\ main_pc' = "running"
    /\ UNCHANGED <<returned_loggers, invocation, datavars, runvars, retryvars, nbvars>>

\* The agent run returns: ANALYSIS_RESULT, ANALYSIS_COMPLETE.
MainAnalysisReturn ==
    /\ main_pc = "running"
    /\ logging' = log_system_event(
                      file_logger_log(logging, Entry("ANALYSIS_RESULT", "-")),
                      "ANALYSIS_COMPLETE")
    /\ main_pc' = "finally_return"
    /\ UNCHANGED <<returned_loggers, invocation, datavars, runvars, retryvars, nbvars>>

\* The agent run raises: ANALYSIS_ERROR, then raise.
MainAnalysisRaise ==
    /\ main_pc = "running"
    /\ logging' = file_logger_log(logging, Entry("ANALYSIS_ERROR", "-"))
    /\ main_pc' = "finally_raise"
    /\ UNCHANGED <<returned_loggers, invocation, datavars, runvars, retryvars, nbvars>>

\* finally: log_session_end(); main returns or the exception goes on.
MainFinally ==
    /\ main_pc \in {"finally_return", "finally_raise"}
    /\ logging' = log_session_end(logging)
    /\ main_pc' = IF main_pc = "finally_return" THEN "returned" ELSE "raised"
    /\ UNCHANGED <<returned_loggers, invocation, datavars, runvars, retryvars, nbvars>>

NextMain ==
    \/ MainStart
    \/ MainLoadRow
    \/ MainLoadSample
    \/ MainCreateContext
    \/ MainFallback
    \/ MainAnalysisStart
    \/ MainAnalysisReturn
    \/ MainAnalysisRaise
    \/ MainFinally

SpecMain == InitMain /\ [][NextMain]_vars

----------------------------------------------------------------------------
(* utils/helpers.py : retry_operation(operation, max_attempts,             *)
(* delay_seconds, exceptions)                                              *)

MaxAttempts == 3

\* What a call of operation() may do: return, raise an exception listed
\* in `exceptions`, or raise one that is not.
Outcomes == {"ok", "ValueError", "KeyError"}

\* The argument exceptions = (ValueError,)
exceptions == {"ValueError"}

\* Nothing of the inventory is loaded and no agent runs.
DataIdle ==
    /\ items = << >>
    /\ phase = "loading"
    /\ context = NoContext
    /\ plan = NoPlan
    /\ summary = NoSummary

\* retry_operation is entered: last_exception = None, the loop begins.
InitRetry ==
    /\ DataIdle /\ RunIdle /\ LogIdle /\ MainIdle /\ NbIdle
    /\ max_attempts \in 0..MaxAttempts
    /\ operation \in [1..MaxAttempts -> Outcomes]
    /\ retry_pc = "loop"
    /\ attempt = 0
    /\ op_calls = 0
    /\ last_exception = NoOutcome
    /\ retry_result = NoOutcome

\* The loop body keeping the first exception caught instead of the last.
RetryCall_mut ==
    /\ retry_pc = "loop"
    /\ attempt < max_attempts
    /\ LET n == op_calls + 1
           o == operation[n]
           e == [kind |-> "raised", exception |-> o, call |-> n]
       IN  /\ op_calls' = n
           /\ IF o = "ok"
              THEN /\ retry_pc' = "returned"
                   /\ retry_result' = [kind |-> "returned", call |-> n]
                   /\ UNCHANGED last_exception
              ELSE IF o \in exceptions
              THEN /\ last_exception' = IF last_exception = NoOutcome
                                        THEN e ELSE last_exception
                   /\ IF attempt < max_attempts - 1
                      THEN /\ retry_pc' = "sleep"
                           /\ UNCHANGED retry_result
                      ELSE /\ retry_pc' = "raised"
                           /\ retry_result' = last_exception'
              ELSE /\ retry_pc' = "raised"
                   /\ retry_result' = e
                   /\ UNCHANGED last_exception
    /\ UNCHANGED <<attempt, max_attempts, operation>>
    /\ UNCHANGED <<datavars, runvars, logvars, mainvars, nbvars>>

\* One pass of the loop body up to the sleep: operation() is called; its
\* result is returned, or a listed exception is kept in last_exception and
\* raised when this was the last attempt, or another exception goes on.
RetryCall ==
    /\ retry_pc = "loop"
    /\ attempt < max_attempts
    /\ LET n == op_calls + 1
           o == operation[n]
           e == [kind |-> "raised", exception |-> o, call |-> n]
       IN  /\ op_calls' = n
           /\ IF o = "ok"
              THEN /\ retry_pc' = "returned"
                   /\ retry_result' = [kind |-> "returned", call |-> n]
                   /\ UNCHANGED last_exception
              ELSE IF o \in exceptions
              THEN /\ last_exception' = e
                   /\ IF attempt < max_attempts - 1
                      THEN /\ retry_pc' = "sleep"
                           /\ UNCHANGED retry_result
                      ELSE /\ retry_pc' = "raised"
                           /\ retry_result' = last_exception'
              ELSE /\ retry_pc' = "raised"
                   /\ retry_result' = e
                   /\ UNCHANGED last_exception
    /\ UNCHANGED <<attempt, max_attempts, operation>>
    /\ UNCHANGED <<datavars, runvars, logvars, mainvars, nbvars>>

\* time.sleep(wait_time), then the next value of attempt.
RetrySleep ==
    /\ retry_pc = "sleep"
    /\ attempt' = attempt + 1
    /\ retry_pc' = "loop"
    /\ UNCHANGED <<max_attempts, operation, op_calls, last_exception, retry_result>>
    /\ UNCHANGED <<datavars, runvars, logvars, mainvars, nbvars>>

\* The loop ends without return or raise (range(max_attempts) is used
\* up): raise last_exception or Exception("Operation failed ...").
RetryFallThrough ==
    /\ retry_pc = "loop"
    /\ attempt >= max_attempts
    /\ retry_pc' = "raised"
    /\ retry_result' = IF last_exception # NoOutcome THEN last_exception
                       ELSE [kind |-> "raised", exception |-> "Exception", call |-> 0]
    /\ UNCHANGED <<attempt, max_attempts, operation, op_calls, last_exception>>
    /\ UNCHANGED <<datavars, runvars, logvars, mainvars, nbvars>>

NextRetry ==
    \/ RetryCall
    \/ RetrySleep
    \/ RetryFallThrough

SpecRetry == InitRetry /\ [][NextRetry]_vars

----------------------------------------------------------------------------
(* utils/notebook_logging.py : NotebookLogCapture, NotebookLogHandler and  *)
(* run_agent_with_capture on the global notebook_capture                   *)

MaxEntries == 4

\* A log entry; id stands for the dict object created.
LogEntry(id, type) == [id |-> id, type |-> type]

\* Messages a logger hands to the handler: structured ones (with " | ")
\* of a known or unknown type, and plain ones.
Messages ==
    { [structured |-> TRUE, type |-> "TOOL_INPUT"],
      [structured |-> TRUE, type |-> "UNKNOWN"],
      [structured |-> FALSE, type |-> "-"] }

InitNotebook ==
    /\ DataIdle /\ RunIdle /\ LogIdle /\ MainIdle /\ RetryIdle
    /\ NbIdle

\* notebook_capture.capture_interaction(interaction_type, content, tool)
CaptureInteraction ==
    /\ captured < MaxEntries
    /\ \E type \in {"TOOL_INPUT", "TOOL_OUTPUT"} :
          LET log_entry == LogEntry(captured + 1, type)
          IN  /\ logs' = Append(logs, log_entry)
              /\ current_run_logs' = Append(current_run_logs, log_entry)
    /\ captured' = captured + 1
    /\ nb_op' = "capture_interaction"
    /\ UNCHANGED nb_pc
    /\ UNCHANGED <<datavars, runvars, logvars, mainvars, retryvars>>

\* NotebookLogHandler.emit(record): only a message with " | " is added.
Emit ==
    /\ captured < MaxEntries
    /\ \E message \in Messages :
          IF message.structured
          THEN LET log_entry == LogEntry(captured + 1, message.type)
               IN  /\ logs' = Append(logs, log_entry)
                   /\ current_run_logs' = Append(current_run_logs, log_entry)
                   /\ captured' = captured + 1
          ELSE UNCHANGED <<logs, current_run_logs, captured>>
    /\ nb_op' = "emit"
    /\ UNCHANGED nb_pc
    /\ UNCHANGED <<datavars, runvars, logvars, mainvars, retryvars>>

\* run_agent_with_capture up to Runner.run: current_run_logs.clear(),
\* then capture_interaction("AGENT_INPUT", input_message).
RunAgentWithCaptureStart ==
    /\ nb_pc = "idle"
    /\ captured < MaxEntries
    /\ LET log_entry == LogEntry(captured + 1, "AGENT_INPUT")
       IN  /\ logs' = Append(logs, log_entry)
           /\ current_run_logs' = <<log_entry>>
    /\ captured' = captured + 1
    /\ nb_pc' = "running"
    /\ nb_op' = "run_start"
    /\ UNCHANGED <<datavars, runvars, logvars, mainvars, retryvars>>

\* Runner.run returns: capture_interaction("AGENT_OUTPUT", output).
RunAgentWithCaptureReturn ==
    /\ nb_pc = "running"
    /\ captured < MaxEntries
    /\ LET log_entry == LogEntry(captured + 1, "AGENT_OUTPUT")
       IN  /\ logs' = Append(logs, log_entry)
           /\ current_run_logs' = Append(current_run_logs, log_entry)
    /\ captured' = captured + 1
    /\ nb_pc' = "idle"
    /\ nb_op' = "run_return"
    /\ UNCHANGED <<datavars, runvars, logvars, mainvars, retryvars>>

\* Runner.run raises: the exception leaves run_agent_with_capture.
RunAgentWithCaptureRaise ==
    /\ nb_pc = "running"
    /\ nb_pc' = "idle"
    /\ nb_op' = "run_raise"
    /\ UNCHANGED <<logs, current_run_logs, captured>>
    /\ UNCHANGED <<datavars, runvars, logvars, mainvars, retryvars>>

\* A clear() that forgets current_run_logs.
Clear_mut ==
    /\ logs' = << >>
    /\ nb_op' = "clear"
    /\ UNCHANGED <<current_run_logs, nb_pc, captured>>
    /\ UNCHANGED <<datavars, runvars, logvars, mainvars, retryvars>>

\* notebook_capture.clear()
Clear ==
    /\ logs' = << >>
    /\ current_run_logs' = << >>
    /\ nb_op' = "clear"
    /\ UNCHANGED <<nb_pc, captured>>
    /\ UNCHANGED <<datavars, runvars, logvars, mainvars, retryvars>>

NextNotebook ==
    \/ CaptureInteraction
    \/ Emit
    \/ RunAgentWithCaptureStart
    \/ RunAgentWithCaptureReturn
    \/ RunAgentWithCaptureRaise
    \/ Clear

SpecNotebook == InitNotebook /\ [][NextNotebook]_vars

----------------------------------------------------------------------------
(* Graph helpers used by the properties                                    *)

\* The set of tasks that list deps names for task t.
DirectDeps(deps, t) == {deps[t][j] : j \in 1..Len(deps[t])}

\* The 1-based indices of the groups that name task t.
GroupsOf(groups, t) ==
    {k \in 1..Len(groups) : \E j \in 1..Len(groups[k]) : groups[k][j] = t}

RECURSIVE Prerequisites(_, _, _)
\* S together with everything reachable from S along at most n edges.
Prerequisites(deps, S, n) ==
    IF n = 0 THEN S
    ELSE Prerequisites(deps,
                       S \cup UNION {DirectDeps(deps, t) : t \in S \cap DOMAIN deps},
                       n - 1)

RECURSIVE Level(_, _, _)
\* Level of t: 0 without dependencies, else 1 + the largest level of a
\* dependency.  fuel bounds the recursion by the number of tasks.
Level(deps, t, fuel) ==
    IF fuel = 0 \/ t \notin DOMAIN deps \/ deps[t] = << >> THEN 0
    ELSE LET ls == {Level(deps, d, fuel - 1) : d \in DirectDeps(deps, t)}
         IN  1 + CHOOSE m \in ls : \A l \in ls : l <= m

\* Number of edges on the longest dependency chain.
LongestChain(deps) ==
    LET ls == {Level(deps, t, Cardinality(DOMAIN deps)) : t \in DOMAIN deps}
    IN  CHOOSE m \in ls : \A l \in ls : l <= m

----------------------------------------------------------------------------
(* Properties                                                              *)

\* C1: for a non-empty collection the strategy in the plan is chosen by
\* first match: URGENT PARALLEL RESPONSE exactly when critical/total > 0.15;
\* otherwise BALANCED PARALLEL exactly when urgent/total > 0.30; otherwise
\* OPTIMIZATION-FOCUSED.  No critical and no urgent item gives
\* OPTIMIZATION-FOCUSED.
C1_StrategyFirstMatch ==
    plan # NoPlan =>
        LET its     == context.items
            n       == Len(its)
            crit    == Cardinality({i \in 1..n :
                          2 * its[i].current_stock <= its[i].reorder_threshold})
            urg     == Cardinality({i \in 1..n :
                          10 * its[i].current_stock <= 8 * its[i].reorder_threshold})
            critHit == 100 * crit > 15 * n
            urgHit  == 100 * urg > 30 * n
        IN  /\ n > 0
            /\ (plan.workflow_strategy = "URGENT PARALLEL RESPONSE") <=> critHit
            /\ (plan.workflow_strategy = "BALANCED PARALLEL APPROACH")
                  <=> (~critHit /\ urgHit)
            /\ (plan.workflow_strategy = "OPTIMIZATION-FOCUSED PARALLEL")
                  <=> (~critHit /\ ~urgHit)
            /\ (crit = 0 /\ urg = 0)
                  => plan.workflow_strategy = "OPTIMIZATION-FOCUSED PARALLEL"

\* A plan for a collection with a critical item, yet too few of them for
\* the critical test, so that the urgent test decided.
C1_Witness ==
    /\ plan # NoPlan
    /\ plan.critical_items > 0
    /\ plan.workflow_strategy = "BALANCED PARALLEL APPROACH"

\* C2: in the plan every task sits in a group strictly after the group of
\* each task it depends on, so no group holds both ends of a dependency.
C2_DependenciesInEarlierGroups ==
    plan # NoPlan =>
        \A t \in DOMAIN plan.agent_dependencies :
            \A d \in DirectDeps(plan.agent_dependencies, t) :
                /\ GroupsOf(plan.parallel_groups, t) # {}
                /\ GroupsOf(plan.parallel_groups, d) # {}
                /\ \A a \in GroupsOf(plan.parallel_groups, t) :
                      \A b \in GroupsOf(plan.parallel_groups, d) : a > b

\* A plan in which a task follows its dependency by more than one group.
C2_Witness ==
    /\ plan # NoPlan
    /\ \E t \in DOMAIN plan.agent_dependencies :
          \E d \in DirectDeps(plan.agent_dependencies, t) :
              \E a \in GroupsOf(plan.parallel_groups, t) :
                  \E b \in GroupsOf(plan.parallel_groups, d) : a > b + 1

\* C3: the number of groups in the plan is 1 + the number of edges on the
\* longest dependency chain of the dependency map.
C3_GroupCountIsCriticalPath ==
    plan # NoPlan =>
        Len(plan.parallel_groups) = 1 + LongestChain(plan.agent_dependencies)

\* C4: every task is in the group whose (0-based) index is its level, and
\* group k holds all and only the tasks of level k.
C4_GroupIsLevel ==
    plan # NoPlan =>
        \A t \in DOMAIN plan.agent_dependencies :
            GroupsOf(plan.parallel_groups, t)
                = {1 + Level(plan.agent_dependencies, t,
                             Cardinality(DOMAIN plan.agent_dependencies))}

\* C5: the groups partition the declared tasks: each declared task is named
\* at exactly one position of exactly one group, and every name in a group
\* is a declared task.
C5_GroupsPartitionTasks ==
    plan # NoPlan =>
        LET groups == plan.parallel_groups
            pos    == {p \in (1..Len(groups)) \X (1..9) : p[2] <= Len(groups[p[1]])}
        IN  /\ \A t \in DOMAIN plan.agent_dependencies :
                  Cardinality({p \in pos : groups[p[1]][p[2]] = t}) = 1
            /\ \A p \in pos : groups[p[1]][p[2]] \in DOMAIN plan.agent_dependencies

\* A plan whose groups name nine tasks in all, as many as are declared.
C5_Witness ==
    /\ plan # NoPlan
    /\ Cardinality(DOMAIN plan.agent_dependencies) = 9
    /\ Len(plan.parallel_groups[1]) + Len(plan.parallel_groups[2])
         + Len(plan.parallel_groups[3]) + Len(plan.parallel_groups[4])
         + Len(plan.parallel_groups[5]) = 9

\* C6: the dependency map is well formed: no task is among its own direct
\* or transitive prerequisites, and every prerequisite is a declared task.
C6_GraphWellFormed ==
    plan # NoPlan =>
        LET deps == plan.agent_dependencies
        IN  \A t \in DOMAIN deps :
                /\ DirectDeps(deps, t) \subseteq DOMAIN deps
                /\ t \notin Prerequisites(deps, DirectDeps(deps, t),
                                          Cardinality(DOMAIN deps))

\* A plan whose map has a task with transitive prerequisites beyond its
\* direct ones.
C6_Witness ==
    /\ plan # NoPlan
    /\ \E t \in DOMAIN plan.agent_dependencies :
          Prerequisites(plan.agent_dependencies,
                        DirectDeps(plan.agent_dependencies, t), 9)
              # DirectDeps(plan.agent_dependencies, t)

\* C7: every call of create_executive_summary on a non-empty collection
\* returns a report and never ends in an error.
C7_SummaryAlwaysReturned ==
    summary # NoSummary => summary.kind = "returned"

\* C8: the overall confidence the synthesizer computes is within [0,100]
\* (here in hundredths of a percent).
C8_ConfidenceInRange ==
    summary # NoSummary =>
        /\ summary.overall_confidence >= 0
        /\ summary.overall_confidence <= 100 * 100

\* A returned report carrying the confidence 90.39.
C8_Witness ==
    /\ summary.kind = "returned"
    /\ summary.overall_confidence = 9039

\* C9: weights and scores are declared over the same metrics, the weights
\* sum to 1.0 (100 hundredths) and each score is within [0,100].
C9_WeightsAndScoresDeclared ==
    summary # NoSummary =>
        /\ DOMAIN summary.confidence_weights = DOMAIN summary.validation_results
        /\ SumOver(summary.confidence_weights, DOMAIN summary.confidence_weights) = 100
        /\ \A m \in DOMAIN summary.validation_results :
              /\ summary.validation_results[m] >= 0
              /\ summary.validation_results[m] <= 100

\* A synthesizer call that used six weighted metrics.
C9_Witness ==
    /\ summary # NoSummary
    /\ Cardinality(DOMAIN summary.confidence_weights) = 6

\* C10: constructing the context from an empty list fails and leaves no
\* context, and no tool ever runs on an empty collection.
C10_EmptyCollectionRejected ==
    /\ (phase # "loading" /\ items = << >>)
          => (phase = "rejected" /\ context = NoContext)
    /\ context # NoContext => Len(context.items) > 0
    /\ plan # NoPlan => plan.total_items > 0
    /\ summary # NoSummary => summary.total_items > 0

\* The constructor was given the empty list and raised.
C10_Witness ==
    /\ phase = "rejected"
    /\ items = << >>
    /\ context = NoContext
    /\ plan = NoPlan
    /\ summary = NoSummary

RECURSIVE ExposureOver(_)
\* Sum of unit_cost x order_quantity over the items of its whose stock is
\* at most 0.2 x order_quantity.
ExposureOver(its) ==
    IF its = << >> THEN 0
    ELSE (IF 5 * Head(its).current_stock <= Head(its).order_quantity
          THEN Head(its).unit_cost * Head(its).order_quantity ELSE 0)
         + ExposureOver(Tail(its))

\* its with the items at positions i and i+1 exchanged.
SwapAdjacent(its, i) ==
    [k \in 1..Len(its) |->
        IF k = i THEN its[i + 1] ELSE IF k = i + 1 THEN its[i] ELSE its[k]]

\* C11: when more than 15% of the items are critical (stock <= 0.5 x
\* threshold) the plan's strategy is URGENT PARALLEL RESPONSE and its
\* business risk assessment carries the HIGH entry.
C11_CriticalRatioGivesUrgentAndHigh ==
    plan # NoPlan =>
        LET its  == context.items
            n    == Len(its)
            crit == Cardinality({i \in 1..n :
                       2 * its[i].current_stock <= its[i].reorder_threshold})
        IN  100 * crit > 15 * n =>
                /\ plan.workflow_strategy = "URGENT PARALLEL RESPONSE"
                /\ \E k \in 1..Len(plan.business_risk_factors) :
                      plan.business_risk_factors[k] = "HIGH stockout risk"

\* A plan for six items of which one is critical (16.7%).
C11_Witness ==
    /\ plan # NoPlan
    /\ plan.total_items = 6
    /\ plan.critical_items = 1
    /\ plan.below_threshold = 1
    /\ plan.workflow_strategy = "URGENT PARALLEL RESPONSE"

\* C12: the business risk level follows the critical ratio with the bands
\* of the strategy selector: the HIGH entry is reported exactly when the
\* strategy is URGENT PARALLEL RESPONSE.
C12_HighExactlyWhenUrgent ==
    plan # NoPlan =>
        ((\E k \in 1..Len(plan.business_risk_factors) :
              plan.business_risk_factors[k] = "HIGH stockout risk")
         <=> plan.workflow_strategy = "URGENT PARALLEL RESPONSE")

\* C13: the estimated restock cost of the synthesizer is the sum of
\* unit_cost x order_quantity over exactly the items with
\* stock <= 0.2 x order_quantity.
C13_ExposureOverTwentyPercentItems ==
    summary # NoSummary =>
        summary.estimated_restock_cost = ExposureOver(context.items)

\* C14: the groups of the plan are the same, in membership and order,
\* whichever strategy is selected: they equal the groups planned for a
\* collection of each of the three strategies.
C14_GroupsIndependentOfStrategy ==
    plan # NoPlan =>
        \A ref \in { <<InventoryItem(5, 30, 0)>>,
                     <<InventoryItem(8, 20, 2)>>,
                     <<InventoryItem(60, 100, 5)>> } :
            plan.parallel_groups = coordinate_workflow_steps(ref).parallel_groups

\* A plan under the optimization-focused strategy for a collection that
\* has items below threshold.
C14_Witness ==
    /\ plan # NoPlan
    /\ plan.workflow_strategy = "OPTIMIZATION-FOCUSED PARALLEL"
    /\ plan.below_threshold > 0
    /\ Len(plan.parallel_groups) = 5

C17_NoStartBeforeDependencies ==
    [][\A t \in Tasks :
          (task_status[t] # "running" /\ task_status'[t] = "running") =>
              /\ \A d \in DirectDeps(agent_dependencies, t) :
                    task_status[d] \in {"returned", "raised"}
              /\ \A k \in GroupsOf(parallel_groups, t) :
                    k > 1 =>
                       \A j \in 1..Len(parallel_groups[k - 1]) :
                           task_status[parallel_groups[k - 1][j]]
                               \in {"returned", "raised"}]_vars

\* C19: an error of a task is kept as that task's failed result and never
\* leaves the task invocation as an exception: no tool wrapper and no
\* agent run ends by raising to its caller.
C19_ErrorsNeverPropagate ==
    /\ \A t \in Tasks : task_status[t] # "raised"
    /\ run_status # "raised"

\* C20: every returned report has a risk factors entry, and when a task
\* failed the entry is non-empty and names that task.
C20_ReportNamesFailedTasks ==
    summary.kind = "returned" =>
        /\ "risk_factors" \in DOMAIN summary
        /\ \A t \in Tasks :
              task_status[t] = "raised" =>
                  \E k \in 1..Len(summary.risk_factors) :
                      summary.risk_factors[k] = t

\* C23: for every item with a non-negative threshold critical implies
\* urgent implies below threshold; so critical count <= urgent count <=
\* number below threshold, and the coordinator, the synthesizer and
\* InventoryContext.critical_items count the same critical items.
C23_CriticalUrgentBelowNested ==
    /\ \A i \in 1..Len(items) :
          items[i].reorder_threshold >= 0 =>
              /\ is_critical(items[i]) => stock_le_080_threshold(items[i])
              /\ stock_le_080_threshold(items[i]) => is_below_threshold(items[i])
    /\ plan # NoPlan =>
          /\ plan.critical_items <= plan.urgent_items
          /\ plan.urgent_items <= plan.below_threshold
          /\ plan.critical_items = Len(context_critical_items(context.items))
    /\ summary # NoSummary =>
          /\ summary.critical_count <= summary.urgent_count
          /\ summary.urgent_count <= summary.below_threshold
          /\ summary.critical_count = Len(context_critical_items(context.items))
    /\ (plan # NoPlan /\ summary # NoSummary) =>
          /\ plan.critical_items = summary.critical_count
          /\ plan.urgent_items = summary.urgent_count
          /\ plan.below_threshold = summary.below_threshold

\* Plan and report made for a collection where the three counts differ.
C23_Witness ==
    /\ plan # NoPlan
    /\ summary.kind = "returned"
    /\ 1 <= plan.critical_items
    /\ plan.critical_items < plan.urgent_items
    /\ plan.urgent_items < plan.below_threshold
    /\ plan.below_threshold < plan.total_items

\* C24: every task other than result_synthesizer is a direct or transitive
\* dependency of result_synthesizer, and result_synthesizer is the only
\* member of the last group.
C24_SynthesizerNeedsAll ==
    plan # NoPlan =>
        LET deps   == plan.agent_dependencies
            groups == plan.parallel_groups
        IN  /\ (DOMAIN deps) \ {"result_synthesizer"} \subseteq
                   Prerequisites(deps, DirectDeps(deps, "result_synthesizer"),
                                 Cardinality(DOMAIN deps))
            /\ groups[Len(groups)] = <<"result_synthesizer">>

\* C25: the reported dependency_depth is the length of the longest
\* dependency chain (counted in edges, as in C3) and the reported number of
\* simultaneous agents is the size of the largest parallel group.
C25_DepthAndPotentialReported ==
    plan # NoPlan =>
        /\ plan.dependency_depth = LongestChain(plan.agent_dependencies)
        /\ \E k \in 1..Len(plan.parallel_groups) :
              plan.parallel_potential = Len(plan.parallel_groups[k])
        /\ \A k \in 1..Len(plan.parallel_groups) :
              Len(plan.parallel_groups[k]) <= plan.parallel_potential

\* A plan that reports depth 3 and 3 simultaneous agents.
C25_Witness ==
    /\ plan # NoPlan
    /\ plan.dependency_depth = 3
    /\ plan.parallel_potential = 3
    /\ Len(plan.parallel_groups) = 5

\* The set of items listed in a bucket.
Members(bucket) == {bucket[k] : k \in 1..Len(bucket)}

\* C29: the HIGH, MEDIUM and LOW lists of the priority classifier
\* partition the items below threshold: every such item is in exactly one
\* list, no other item is in any, and the three lengths add up to the
\* number of violations the threshold checker reports.
C29_BucketsPartitionViolations ==
    LET pc == tool_result["priority_classifier"]
        tm == tool_result["threshold_monitor"]
    IN  /\ pc # NoResult =>
              LET H == Members(pc.high_priority)
                  M == Members(pc.medium_priority)
                  L == Members(pc.low_priority)
              IN  /\ H \cap M = {} /\ H \cap L = {} /\ M \cap L = {}
                  /\ \A i \in 1..Len(items) :
                        is_below_threshold(items[i]) <=> items[i] \in H \cup M \cup L
                  /\ Len(pc.high_priority) + Len(pc.medium_priority)
                       + Len(pc.low_priority)
                       = Len(items_below_threshold(items))
        /\ (pc # NoResult /\ tm # NoResult) =>
              Len(pc.high_priority) + Len(pc.medium_priority)
                + Len(pc.low_priority) = tm.items_below

\* Both tools have returned for a collection with an item in each list
\* and an item above its threshold.
C29_Witness ==
    /\ tool_result["threshold_monitor"] # NoResult
    /\ tool_result["priority_classifier"] # NoResult
    /\ tool_result["priority_classifier"].high_priority # << >>
    /\ tool_result["priority_classifier"].medium_priority # << >>
    /\ tool_result["priority_classifier"].low_priority # << >>
    /\ tool_result["threshold_monitor"].items_below < Len(items)

\* C21: when loading the inventory data raised, main builds a fallback
\* context and goes on to run the analysis with it.
C21_FallbackThenAnalysis ==
    (Logged(logging, "DATA_LOAD_ERROR", "-") /\ main_pc # "fallback") =>
        /\ context # NoContext
        /\ main_pc \in {"returned", "raised"} =>
              Logged(logging, "SYSTEM_EVENT", "ANALYSIS_START")

\* C22: an execution of main that logged APPLICATION_START has logged the
\* session end marker when main exits, whichever way it exits.
C22_SessionEndBeforeExit ==
    (main_pc \in {"returned", "raised"}
        /\ Logged(logging, "SYSTEM_EVENT", "APPLICATION_START")) =>
        Logged(logging, "SESSION_END", "-")

\* The TOOL_INPUT, TOOL_OUTPUT and TOOL_ERROR lines of the file log.
IsToolEntry(e) == e.type \in {"TOOL_INPUT", "TOOL_OUTPUT", "TOOL_ERROR"}

ToolEntries == SelectSeq(logging.file_log, IsToolEntry)

IsSessionStart(e) == e.type = "SESSION_START"

\* C28: every setup_logging / get_loggers call returns the same pair of
\* loggers, and the handlers, the log file and the session start lines
\* are those the first call made.
C28_SetupOnce ==
    /\ \A k \in 1..Len(returned_loggers) :
          returned_loggers[k].loggers = returned_loggers[1].loggers
    /\ logging.calls >= 1 =>
          /\ logging.console_logger.handlers = <<1>>
          /\ logging.file_logger.handlers = <<1>>
          /\ logging.log_files = <<1>>
          /\ Len(SelectSeq(logging.file_log, IsSessionStart)) = 1

\* get_loggers, setup_logging and setup_logging again have returned.
C28_Witness ==
    /\ Len(returned_loggers) = 3
    /\ returned_loggers[1].call = "get_loggers"
    /\ returned_loggers[2].call = "setup_logging"
    /\ returned_loggers[3].call = "setup_logging"
    /\ ToolEntries = << >>

\* C27: retry_operation calls operation at most max_attempts times; it
\* returns the result of the first call that succeeds and calls no more;
\* when all max_attempts calls raise a listed exception it raises the
\* exception of the last call; an exception that is not listed goes on at
\* once, with no further call.
C27_RetryContract ==
    /\ op_calls <= max_attempts
    /\ \A k \in 1..op_calls :
          k < op_calls => operation[k] \in exceptions
    /\ retry_pc = "returned" =>
          /\ operation[op_calls] = "ok"
          /\ retry_result = [kind |-> "returned", call |-> op_calls]
    /\ (op_calls >= 1 /\ operation[op_calls] = "ok") => retry_pc = "returned"
    /\ (retry_pc = "raised" /\ max_attempts >= 1
          /\ \A k \in 1..max_attempts : operation[k] \in exceptions) =>
          /\ op_calls = max_attempts
          /\ retry_result = [kind |-> "raised",
                             exception |-> operation[max_attempts],
                             call |-> max_attempts]
    /\ (op_calls >= 1 /\ operation[op_calls] \notin exceptions \cup {"ok"}) =>
          /\ retry_pc = "raised"
          /\ retry_result = [kind |-> "raised",
                             exception |-> operation[op_calls],
                             call |-> op_calls]

\* Three attempts were allowed and all three calls raised ValueError.
C27_Witness ==
    /\ retry_pc = "raised"
    /\ max_attempts = 3
    /\ op_calls = 3
    /\ \A k \in 1..3 : operation[k] \in exceptions

\* a is the last Len(a) entries of b.
IsSuffix(a, b) ==
    /\ Len(a) <= Len(b)
    /\ SubSeq(b, Len(b) - Len(a) + 1, Len(b)) = a

\* C30: current_run_logs is always a suffix of logs; clear empties both;
\* starting a captured run empties only current_run_logs (logs keeps its
\* entries and both get the AGENT_INPUT entry).
C30_CurrentRunIsSuffix ==
    /\ [](IsSuffix(current_run_logs, logs))
    /\ [][/\ nb_op' = "clear" =>
               (logs' = << >> /\ current_run_logs' = << >>)
          /\ nb_op' = "run_start" =>
               /\ Len(logs') = Len(logs) + 1
               /\ SubSeq(logs', 1, Len(logs)) = logs
               /\ current_run_logs' = <<logs'[Len(logs')]>>]_vars

\* A captured run has started after three entries of earlier activity.
C30_Witness ==
    /\ nb_op = "run_start"
    /\ Len(logs) = 4
    /\ Len(current_run_logs) = 1

====
